---- MODULE Spec2Model ----
(***************************************************************************)
(* Model of the container image puller service (src/main.py): the two     *)
(* HTTP handlers /pull-image and /prune-images, the background tasks      *)
(* run_pull and run_prune serialised by image_lock, and the cron          *)
(* scheduler that fires run_prune_job.                                    *)
(*                                                                         *)
(* The container runtime (crictl), the clock, the disk and the callers    *)
(* are the environment: their answers are drawn from small sets.          *)
(***************************************************************************)
EXTENDS Integers, Sequences, FiniteSets, TLC

\* ------------------------------------------------------------------ bounds
MaxRequests == 2        \* HTTP requests handled in one behaviour
MaxFires == 1           \* scheduler fires in one behaviour
MaxHttpRequests == 1    \* requests per behaviour when admission is explored
MaxWaitPeriods == 2     \* timeout periods a pull subprocess may be watched

\* --------------------------------------------------------- program constants
DiskFloorGiB == 50          \* main.py:134
PullTimeoutMinutes == 30    \* main.py:150 (the bound the handler announces)
DefaultDays == 14           \* main.py:372
SecondsPerDay == 24 * 60 * 60   \* main.py:277

\* ---------------------------------------------------------------- values
\* Python's None
NoneVal == [kind |-> "None"]

\* An IPv4 address is its four octets; other caller strings are an IPv6
\* address or text that ipaddress.ip_address() rejects.
V4(a, b, c, d) == [kind |-> "v4", octets |-> <<a, b, c, d>>]
V6Addr == [kind |-> "v6", octets |-> <<0, 0, 0, 0>>]
BadAddr == [kind |-> "text", octets |-> <<0, 0, 0, 0>>]

\* The value of the ALLOWED_NETWORK environment variable: unset, text that
\* is no CIDR, or "a.b.c.d/p".
EnvAbsent == [kind |-> "absent", octets |-> <<0, 0, 0, 0>>, prefix |-> 0]
EnvGarbage == [kind |-> "garbage", octets |-> <<0, 0, 0, 0>>, prefix |-> 0]
Cidr(a, b, c, d, p) == [kind |-> "cidr", octets |-> <<a, b, c, d>>, prefix |-> p]

Pow2(n) == 2 ^ n

\* Number of network bits of a /p prefix that fall into octet k (1..4)
NetBitsIn(k, p) ==
    LET left == p - 8 * (k - 1)
    IN  IF left <= 0 THEN 0 ELSE IF left >= 8 THEN 8 ELSE left

\* The network part of octet k under prefix p
NetPart(octet, k, p) == octet \div Pow2(8 - NetBitsIn(k, p))

\* The host part of octet k under prefix p
HostPart(octet, k, p) == octet % Pow2(8 - NetBitsIn(k, p))

\* ipaddress.ip_network(text) with strict=True: a ValueError (here NoneVal is
\* what get_allowed_network makes of it) for text that is no CIDR and for a
\* CIDR whose host bits are set.
ip_network(cidr) ==
    IF cidr.kind = "cidr"
       /\ cidr.prefix \in 0..32
       /\ \A k \in 1..4 : HostPart(cidr.octets[k], k, cidr.prefix) = 0
    THEN [kind |-> "net", octets |-> cidr.octets, prefix |-> cidr.prefix]
    ELSE NoneVal

\* `ip in network` of the ipaddress module: same version and same network bits
IpInNetwork(ip, net) ==
    /\ ip.kind = "v4"
    /\ net.kind = "net"
    /\ \A k \in 1..4 :
          NetPart(ip.octets[k], k, net.prefix) = NetPart(net.octets[k], k, net.prefix)

\* os.getenv("ALLOWED_NETWORK", "0.0.0.0/1")
AllowedNetworkDefault == Cidr(0, 0, 0, 0, 1)

get_allowed_network_Open(env) ==
    LET env_cidr == IF env.kind = "absent" THEN AllowedNetworkDefault ELSE env
        parsed == ip_network(env_cidr)
    IN  IF parsed = NoneVal THEN ip_network(Cidr(0, 0, 0, 0, 0)) ELSE parsed

get_allowed_network(env) ==
    LET env_cidr == IF env.kind = "absent" THEN AllowedNetworkDefault ELSE env
    IN  ip_network(env_cidr)

is_allowed_ip(remote_ip, network) ==
    IF remote_ip.kind = "text"
    THEN FALSE
    ELSE network # NoneVal /\ IpInNetwork(remote_ip, network)

\* ------------------------------------------------------- request bodies
\* A string that names an image is the sequence of its parts between "/":
\* "nginx" is <<"nginx">>, "docker.io/nginx" is <<"docker.io", "nginx">> and
\* the empty string is <<"">>.
Str(parts) == [kind |-> "str", parts |-> parts]
ImageNone == [kind |-> "None", parts |-> <<>>]
ImageNumber == [kind |-> "int", parts |-> <<>>]

\* JSON values of the "days" key
JInt(n) == [kind |-> "int", n |-> n, chars |-> <<>>]
JFloatTenths(n) == [kind |-> "float", n |-> n, chars |-> <<>>]
JStr(chars) == [kind |-> "str", n |-> 0, chars |-> chars]
JNull == [kind |-> "null", n |-> 0, chars |-> <<>>]

\* The body of a request: not JSON at all (request.json() raises), or a JSON
\* object with or without the key the handler reads.
NoJsonBody == [kind |-> "nojson"]
PullBody(image) == [kind |-> "object", image |-> image]
EmptyObject == [kind |-> "object", hasDays |-> FALSE, days |-> JNull, empty |-> TRUE]
OtherKeyObject == [kind |-> "object", hasDays |-> FALSE, days |-> JNull, empty |-> FALSE]
DaysBody(v) == [kind |-> "object", hasDays |-> TRUE, days |-> v, empty |-> FALSE]

Digits == {"0", "1", "2", "3", "4", "5", "6", "7", "8", "9"}
DigitValue(c) ==
    CASE c = "0" -> 0 [] c = "1" -> 1 [] c = "2" -> 2 [] c = "3" -> 3
      [] c = "4" -> 4 [] c = "5" -> 5 [] c = "6" -> 6 [] c = "7" -> 7
      [] c = "8" -> 8 [] c = "9" -> 9

RECURSIVE DigitsValue(_)
DigitsValue(chars) ==
    IF chars = <<>> THEN 0
    ELSE 10 * DigitsValue(SubSeq(chars, 1, Len(chars) - 1))
         + DigitValue(chars[Len(chars)])

AllDigits(chars) == chars # <<>> /\ \A i \in 1..Len(chars) : chars[i] \in Digits

\* Python's int(x) on a JSON value: [ok, n]; ok = FALSE stands for the
\* TypeError / ValueError it raises.
py_int(v) ==
    CASE v.kind = "int" -> [ok |-> TRUE, n |-> v.n]
      [] v.kind = "float" -> [ok |-> TRUE, n |-> v.n \div 10]
      [] v.kind = "str" ->
            IF AllDigits(v.chars)
            THEN [ok |-> TRUE, n |-> DigitsValue(v.chars)]
            ELSE IF Len(v.chars) > 1 /\ v.chars[1] = "-" /\ AllDigits(Tail(v.chars))
            THEN [ok |-> TRUE, n |-> 0 - DigitsValue(Tail(v.chars))]
            ELSE [ok |-> FALSE, n |-> 0]
      [] OTHER -> [ok |-> FALSE, n |-> 0]

\* `not image` of Python: None and the empty string are falsy
Falsy(image) == image.kind = "None" \/ (image.kind = "str" /\ image.parts = <<"">>)

\* image.count('/')
CountSlashes(parts) == Len(parts) - 1

\* image.startswith('docker.io/')
StartsWithDockerIo(parts) == Len(parts) >= 2 /\ parts[1] = "docker.io"

\* `not image.strip()`: the string is empty or only white space
Blank(parts) == Len(parts) = 1 /\ parts[1] \in {"", " "}

\* main.py:348-351
NormalizeImage(parts) ==
    IF CountSlashes(parts) <= 1 /\ ~StartsWithDockerIo(parts)
    THEN <<"docker.io">> \o parts
    ELSE parts

Reply(status, scheduled, image, days) ==
    [status |-> status, scheduled |-> scheduled, image |-> image, days |-> days]

\* POST /pull-image, main.py:335-359: the status returned and the task added
pull_image_SkipImageCheck(remote_ip, body, network) ==
    IF ~is_allowed_ip(remote_ip, network) THEN Reply(403, FALSE, <<>>, 0)
    ELSE IF body.kind = "nojson" THEN Reply(500, FALSE, <<>>, 0)
    ELSE IF body.image.kind # "str" THEN Reply(500, FALSE, <<>>, 0)
    ELSE Reply(200, TRUE, NormalizeImage(body.image.parts), 0)

pull_image_SkipIpCheck(remote_ip, body, network) ==
    IF body.kind = "nojson" THEN Reply(500, FALSE, <<>>, 0)
    ELSE IF Falsy(body.image) THEN Reply(400, FALSE, <<>>, 0)
    ELSE IF body.image.kind # "str" THEN Reply(500, FALSE, <<>>, 0)
    ELSE Reply(200, TRUE, NormalizeImage(body.image.parts), 0)

pull_image(remote_ip, body, network) ==
    IF ~is_allowed_ip(remote_ip, network)
    THEN Reply(403, FALSE, <<>>, 0)                 \* line 340
    ELSE IF body.kind = "nojson"
    THEN Reply(500, FALSE, <<>>, 0)                 \* line 342 raises
    ELSE IF Falsy(body.image)
    THEN Reply(400, FALSE, <<>>, 0)                 \* line 346
    ELSE IF body.image.kind # "str"
    THEN Reply(500, FALSE, <<>>, 0)                 \* line 349 raises
    ELSE LET image == NormalizeImage(body.image.parts)
         IN  IF Blank(image)
             THEN Reply(400, FALSE, <<>>, 0)        \* line 355
             ELSE Reply(200, TRUE, image, 0)        \* lines 357-359

\* The value of `days` after main.py:372-384. The HTTPException(400) of
\* line 381 is raised inside the try of line 373 and caught by the
\* `except Exception` of line 382, which sets days = 14.
PruneDays(body) ==
    IF body.kind = "nojson" THEN DefaultDays          \* line 374 raises
    ELSE IF body.empty THEN DefaultDays               \* `if data:` is false
    ELSE LET raw == IF body.hasDays THEN body.days ELSE JInt(DefaultDays)
             conv == py_int(raw)
         IN  IF conv.ok THEN conv.n ELSE DefaultDays  \* lines 379-384

\* POST /prune-images, main.py:361-392
prune_images(remote_ip, body, network) ==
    IF ~is_allowed_ip(remote_ip, network)
    THEN Reply(403, FALSE, <<>>, 0)                 \* line 370
    ELSE Reply(200, TRUE, <<>>, PruneDays(body))    \* lines 388-389

\* ------------------------------------------------------------ scheduler
\* The PRUNE_SCHEDULE text: empty (also when the variable is unset), or its
\* fields between white space.
NoSchedule == [kind |-> "empty", fields |-> <<>>]
Schedule(fields) == [kind |-> "text", fields |-> fields]

CronFieldOk(f) == f = "*" \/ f \in Digits

\* CronTrigger.from_crontab: five fields, each a valid expression; anything
\* else raises ValueError.
from_crontab(schedule) ==
    /\ Len(schedule.fields) = 5
    /\ \A i \in 1..5 : CronFieldOk(schedule.fields[i])

\* configure_scheduler, main.py:93-111: the jobs registered and whether the
\* scheduler runs.
configure_scheduler_NoParse(schedule) ==
    IF schedule.kind # "empty"
    THEN [jobs |-> {"image_prune_job"}, running |-> TRUE]
    ELSE [jobs |-> {}, running |-> FALSE]

configure_scheduler(schedule) ==
    IF schedule.kind # "empty" /\ from_crontab(schedule)
    THEN [jobs |-> {"image_prune_job"}, running |-> TRUE]
    ELSE [jobs |-> {}, running |-> FALSE]

\* ------------------------------------------------------ runtime gateway
\* What run_in_host gives for one command: launched = FALSE is the
\* RuntimeError of main.py:262, otherwise the exit code and what stdout holds.
Result(launched, rc, stdout, t) ==
    [launched |-> launched, rc |-> rc, stdout |-> stdout, t |-> t]
LaunchError == Result(FALSE, 0, "", 0)
\* subprocess.run raised FileNotFoundError (the crictl binary is missing);
\* main.py:260-262 re-raises it, like every exception, as RuntimeError
MissingBinary == Result(FALSE, 0, "FileNotFoundError", 0)
\* No command has returned yet
NotReturned == Result(FALSE, 0, "none", 0)
ExitOk == Result(TRUE, 0, "", 0)
ExitError == Result(TRUE, 1, "", 0)
\* inspecti answers: the JSON carries .info.imageSpec.created = t
InspectCreated(t) == Result(TRUE, 0, "created", t)

\* A call of the gateway, as the runtime sees it
Call(cmd, arg) == [cmd |-> cmd, arg |-> arg]

Raise == [kind |-> "raise", t |-> 0]
NoneDt == [kind |-> "None", t |-> 0]
Dt(t) == [kind |-> "dt", t |-> t]

\* get_image_created, main.py:212-235, on the answer of `inspecti`
get_image_created(insp) ==
    IF ~insp.launched THEN Raise                        \* line 216
    ELSE IF insp.rc # 0 THEN NoneDt                     \* line 219
    ELSE IF insp.stdout = "not_json" THEN NoneDt        \* line 223
    ELSE IF insp.stdout \in {"json_list", "info_null"} THEN Raise  \* lines 226-228
    ELSE IF insp.stdout \in {"no_info", "no_created"} THEN NoneDt  \* line 231
    ELSE IF insp.stdout = "bad_created" THEN NoneDt     \* line 235
    ELSE Dt(insp.t)                                     \* line 233

\* shutil.disk_usage(...).free as whole GiB plus the bytes beyond them
Free(gib, rem) == [kind |-> "bytes", gib |-> gib, rem |-> rem]
FreeError == [kind |-> "error", gib |-> 0, rem |-> 0]
NoReading == [kind |-> "none", gib |-> 0, rem |-> 0]

\* main.py:134: free / (1024 ** 3) > 50
DiskAboveFloor_AtLeast(free) == free.gib >= DiskFloorGiB

DiskAboveFloor(free) ==
    free.gib > DiskFloorGiB \/ (free.gib = DiskFloorGiB /\ free.rem > 0)

\* main.py:286-297: whether run_prune goes on to `rmi` for an image
ShouldRemove_IgnoreUsed(created_dt, now, days, img, used_images) ==
    /\ created_dt.kind = "dt"
    /\ ~((now - created_dt.t) < days * SecondsPerDay)

ShouldRemove(created_dt, now, days, img, used_images) ==
    /\ created_dt.kind = "dt"                               \* line 286
    /\ ~((now - created_dt.t) < days * SecondsPerDay)       \* line 291
    /\ ~(img \in used_images)                               \* line 295

\* get_used_images, main.py:173-200: [raised, used, calls] from the answer
\* of `ps -a -q` and the containers' `inspect` answers. A container is
\* [cid, insp, ref].
RECURSIVE UsedLoop(_, _, _, _)
UsedLoop(conts, i, used, calls) ==
    IF i > Len(conts)
    THEN [raised |-> FALSE, used |-> used, calls |-> calls]
    ELSE LET c == conts[i]
             called == calls \cup {Call("inspect", c.cid)}
         IN  IF ~c.insp.launched
             THEN [raised |-> TRUE, used |-> {}, calls |-> called]    \* line 190
             ELSE IF c.insp.rc # 0
             THEN UsedLoop(conts, i + 1, used, called)                \* line 193
             ELSE IF c.insp.stdout \in {"not_json", "json_list", "status_null"}
             THEN [raised |-> TRUE, used |-> {}, calls |-> called]    \* lines 194-195
             ELSE IF c.insp.stdout = "ref"
             THEN UsedLoop(conts, i + 1, used \cup {c.ref}, called)   \* line 198
             ELSE UsedLoop(conts, i + 1, used, called)                \* line 196

get_used_images(ps, conts) ==
    LET called == {Call("ps", <<>>)}
    IN  IF ~ps.launched THEN [raised |-> TRUE, used |-> {}, calls |-> called]
        ELSE IF ps.rc # 0 THEN [raised |-> FALSE, used |-> {}, calls |-> called]
        ELSE UsedLoop(conts, 1, {}, called)

\* get_all_images, main.py:202-210
get_all_images(img, ids) ==
    IF ~img.launched THEN [raised |-> TRUE, list |-> <<>>]
    ELSE IF img.rc # 0 THEN [raised |-> FALSE, list |-> <<>>]
    ELSE [raised |-> FALSE, list |-> ids]

\* ------------------------------------------------------------- state
VARIABLES
    allowedNetworkEnv,  \* the ALLOWED_NETWORK environment variable
    ALLOWED_NETWORK,    \* main.py:80
    PRUNE_SCHEDULE,     \* main.py:19
    PRUNE_DAYS,         \* main.py:20
    appStarted,         \* startup_event has run
    shutdownPc,         \* shutdown_event: "no", "draining" (inside
                        \* scheduler.shutdown(wait=True)) or "returned"
    jobs,               \* job ids registered with the scheduler
    schedulerRunning,   \* scheduler.running
    request,            \* per HTTP request: endpoint, caller, body, status
    task,               \* per background task / job run: its locals and position
    image_lock,         \* main.py:37: 0 when free, else the task holding it
    images,             \* the runtime's image ids, in `images -q` order
    imageInfo,          \* the runtime's `inspecti` answer per image id
    containers          \* the runtime's containers, in `ps -a -q` order

vars == <<allowedNetworkEnv, ALLOWED_NETWORK, PRUNE_SCHEDULE, PRUNE_DAYS,
          appStarted, shutdownPc, jobs, schedulerRunning, request, task,
          image_lock,
          images, imageInfo, containers>>

config == <<allowedNetworkEnv, ALLOWED_NETWORK, PRUNE_SCHEDULE, PRUNE_DAYS>>
life == <<appStarted, shutdownPc>>
sched == <<jobs, schedulerRunning>>
store == <<images, imageInfo, containers>>

Requests == 1..MaxRequests
Fires == (MaxRequests + 1)..(MaxRequests + MaxFires)
Tasks == Requests \cup Fires

NoRequest == [endpoint |-> "none", caller |-> BadAddr, body |-> NoJsonBody, status |-> 0]

NoTask ==
    [kind |-> "none", origin |-> "none", image |-> <<>>, days |-> 0,
     pc |-> "none", outcome |-> "none", calls |-> {}, elapsed |-> 0,
     free |-> NoReading, now |-> 0, used_images |-> {}, all_images |-> <<>>,
     idx |-> 0, images_pruned |-> 0, errors |-> 0, result |-> NotReturned]

\* A task handed to BackgroundTasks.add_task, or a job run the scheduler starts
NewTask(kind, origin, image, days) ==
    [NoTask EXCEPT !.kind = kind, !.origin = origin, !.image = image,
                   !.days = days, !.pc = "queued"]

\* The end of a body: the `with image_lock` block is left, the locals are gone
Ended(t, outcome) ==
    [t EXCEPT !.pc = "done", !.outcome = outcome, !.elapsed = 0, !.now = 0,
              !.used_images = {}, !.all_images = <<>>, !.idx = 0]

InBody(t) == t.pc \notin {"none", "queued", "done"}

\* ------------------------------------------------------- sample values
imgA == <<"imgA">>
imgB == <<"imgB">>
imgC == <<"imgC">>
ImageIds == {imgA, imgB, imgC}

Day(n) == n * SecondsPerDay
NowValues == {Day(100)}

\* The store of the spec's end-to-end example: A is young, B is old and
\* used by a container, C is old and unused.
SampleImages == <<imgA, imgB, imgC>>
SampleInfo ==
    [i \in ImageIds |->
        IF i = imgA THEN InspectCreated(Day(90)) ELSE InspectCreated(Day(80))]
Container(cid, insp, ref) == [cid |-> cid, insp |-> insp, ref |-> ref]
SampleContainers == << Container(<<"c1">>, Result(TRUE, 0, "ref", 0), imgB) >>

Inside == V4(10, 1, 2, 3)
Outside == V4(200, 1, 1, 1)

NetworkEnvs == {Cidr(10, 0, 0, 0, 8)}
Schedules ==
    {NoSchedule, Schedule(<<"0", "3", "*", "*", "*">>), Schedule(<<"0", "3", "*">>),
     Schedule(<<"x", "3", "*", "*", "*">>)}
PruneDaysValues == {DefaultDays}
Callers == {Inside, Outside}
PullBodies == {PullBody(Str(<<"nginx">>))}
PruneBodies == {DaysBody(JInt(5))}
FreeValues == {Free(49, 0), Free(50, 0), Free(50, 1), Free(51, 0), FreeError}
PullResults == {ExitOk, ExitError, LaunchError}
PullInspectResults == {InspectCreated(Day(99)), LaunchError}
ListResults == {ExitOk}
RmiResults == {ExitOk, ExitError}

\* ---------------------------------------------------------------- Init
InitWith(envs, schedules, imgs, info, conts) ==
    /\ allowedNetworkEnv \in envs
    /\ ALLOWED_NETWORK = get_allowed_network(allowedNetworkEnv)
    /\ PRUNE_SCHEDULE \in schedules
    /\ PRUNE_DAYS \in PruneDaysValues
    /\ appStarted = FALSE
    /\ shutdownPc = "no"
    /\ jobs = {}
    /\ schedulerRunning = FALSE
    /\ request = [r \in Requests |-> NoRequest]
    /\ task = [o \in Tasks |-> NoTask]
    /\ image_lock = 0
    /\ images = imgs
    /\ imageInfo = info
    /\ containers = conts

Init == InitWith(NetworkEnvs, Schedules, SampleImages, SampleInfo, SampleContainers)

\* -------------------------------------------------------------- actions
\* startup_event, main.py:319-325
Startup ==
    /\ ~appStarted
    /\ appStarted' = TRUE
    /\ LET c == configure_scheduler(PRUNE_SCHEDULE)
       IN  jobs' = c.jobs /\ schedulerRunning' = c.running
    /\ UNCHANGED <<config, shutdownPc, request, task, image_lock, store>>

\* Requests are numbered in the order they are handled
NextRequest(r) ==
    /\ appStarted
    /\ shutdownPc = "no"
    /\ request[r].endpoint = "none"
    /\ IF r = 1 THEN TRUE ELSE request[r - 1].endpoint # "none"

HandlePullImage_Inline(r, caller, body) ==
    /\ NextRequest(r)
    /\ image_lock = 0
    /\ LET rep == pull_image(caller, body, ALLOWED_NETWORK)
       IN  /\ request' = [request EXCEPT ![r] =
                  [endpoint |-> "pull", caller |-> caller, body |-> body,
                   status |-> rep.status]]
           /\ task' = IF rep.scheduled
                      THEN [task EXCEPT ![r] =
                              [NewTask("pull", "request", rep.image, 0)
                                  EXCEPT !.pc = "pull_disk"]]
                      ELSE task
           /\ image_lock' = IF rep.scheduled THEN r ELSE image_lock
    /\ UNCHANGED <<config, life, sched, store>>

\* POST /pull-image: the handler answers and, on acceptance, adds run_pull
\* as a background task (main.py:357)
HandlePullImage(r, caller, body) ==
    /\ NextRequest(r)
    /\ LET rep == pull_image(caller, body, ALLOWED_NETWORK)
       IN  /\ request' = [request EXCEPT ![r] =
                  [endpoint |-> "pull", caller |-> caller, body |-> body,
                   status |-> rep.status]]
           /\ task' = IF rep.scheduled
                      THEN [task EXCEPT ![r] = NewTask("pull", "request", rep.image, 0)]
                      ELSE task
    /\ UNCHANGED <<config, life, sched, image_lock, store>>

\* POST /prune-images: the handler answers and, on acceptance, adds
\* run_prune as a background task (main.py:388)
HandlePruneImages(r, caller, body) ==
    /\ NextRequest(r)
    /\ LET rep == prune_images(caller, body, ALLOWED_NETWORK)
       IN  /\ request' = [request EXCEPT ![r] =
                  [endpoint |-> "prune", caller |-> caller, body |-> body,
                   status |-> rep.status]]
           /\ task' = IF rep.scheduled
                      THEN [task EXCEPT ![r] = NewTask("prune", "request", <<>>, rep.days)]
                      ELSE task
    /\ UNCHANGED <<config, life, sched, image_lock, store>>

\* The cron trigger fires: the scheduler runs run_prune_job (main.py:85-91)
\* in a worker thread. With the default max_instances = 1 a fire is skipped
\* while an earlier run of the job is still executing.
SchedulerFire(f) ==
    /\ schedulerRunning
    /\ "image_prune_job" \in jobs
    /\ task[f].kind = "none"
    /\ IF f = MaxRequests + 1 THEN TRUE ELSE task[f - 1].kind # "none"
    /\ \A g \in Fires : task[g].pc \in {"none", "done"}
    /\ task' = [task EXCEPT ![f] = NewTask("prune", "scheduler", <<>>, PRUNE_DAYS)]
    /\ UNCHANGED <<config, life, sched, request, image_lock, store>>

PullAcquire_NoLock(o) ==
    /\ task[o].kind = "pull"
    /\ task[o].pc = "queued"
    /\ image_lock' = o
    /\ task' = [task EXCEPT ![o].pc = "pull_disk"]
    /\ UNCHANGED <<config, life, sched, request, store>>

\* The executor's threads the scheduler has started and that have not ended
FiresInFlight == {f \in Fires : task[f].pc \notin {"none", "done"}}

\* shutdown_event calls cleanup_scheduler, main.py:113-120 and 327-333: with
\* the scheduler running, the jobs are removed and scheduler.shutdown(wait=True)
\* is entered, which stops the scheduler and then waits for the executor.
ShutdownBegin ==
    /\ appStarted
    /\ shutdownPc = "no"
    /\ IF schedulerRunning
       THEN /\ jobs' = {}
            /\ schedulerRunning' = FALSE
            /\ shutdownPc' = "draining"
       ELSE /\ shutdownPc' = "returned"
            /\ UNCHANGED sched
    /\ UNCHANGED <<config, appStarted, request, task, image_lock, store>>

ShutdownReturn_NoWait ==
    /\ shutdownPc = "draining"
    /\ shutdownPc' = "returned"
    /\ UNCHANGED <<config, appStarted, sched, request, task, image_lock, store>>

\* scheduler.shutdown(wait=True) returns, main.py:119-120: the executor has
\* no job run left
ShutdownReturn ==
    /\ shutdownPc = "draining"
    /\ FiresInFlight = {}
    /\ shutdownPc' = "returned"
    /\ UNCHANGED <<config, appStarted, sched, request, task, image_lock, store>>

\* `with image_lock:` of run_pull, main.py:130
PullAcquire(o) ==
    /\ task[o].kind = "pull"
    /\ task[o].pc = "queued"
    /\ image_lock = 0
    /\ image_lock' = o
    /\ task' = [task EXCEPT ![o].pc = "pull_disk"]
    /\ UNCHANGED <<config, life, sched, request, store>>

\* main.py:133-135 and 147-148: the disk guard, then the start of `pull`
PullDiskCheck(o, free) ==
    /\ task[o].pc = "pull_disk"
    /\ IF free.kind = "error"
       THEN \* disk_usage raises FileNotFoundError: handler of line 151
            /\ task' = [task EXCEPT ![o] =
                           Ended([task[o] EXCEPT !.free = free], "missing_binary")]
            /\ image_lock' = 0
       ELSE IF DiskAboveFloor(free)
       THEN /\ task' = [task EXCEPT ![o].pc = "pull_run", ![o].free = free,
                           ![o].calls = @ \cup {Call("pull", task[o].image)}]
            /\ UNCHANGED image_lock
       ELSE /\ task' = [task EXCEPT ![o] =
                           Ended([task[o] EXCEPT !.free = free], "insufficient_disk")]
            /\ image_lock' = 0
    /\ UNCHANGED <<config, life, sched, request, store>>

\* subprocess.run of main.py:253 has no timeout argument: while the runtime's
\* pull has not returned, run_pull goes on waiting.
PullWait(o) ==
    /\ task[o].pc = "pull_run"
    /\ task[o].elapsed < MaxWaitPeriods * PullTimeoutMinutes
    /\ task' = [task EXCEPT ![o].elapsed = @ + PullTimeoutMinutes]
    /\ UNCHANGED <<config, life, sched, request, image_lock, store>>

\* main.py:135-146: `pull` returns, or could not be launched (RuntimeError of
\* line 262, caught by line 153). result keeps what the command gave.
PullReturn(o, res) ==
    /\ task[o].pc = "pull_run"
    /\ LET returned == [task[o] EXCEPT !.result = res]
       IN  IF ~res.launched
           THEN /\ task' = [task EXCEPT ![o] = Ended(returned, "unexpected")]
                /\ image_lock' = 0
           ELSE IF res.rc = 0
           THEN /\ task' = [task EXCEPT ![o] =
                               [returned EXCEPT !.pc = "pull_created", !.elapsed = 0]]
                /\ UNCHANGED image_lock
           ELSE /\ task' = [task EXCEPT ![o] = Ended(returned, "nonzero_exit")]
                /\ image_lock' = 0
    /\ UNCHANGED <<config, life, sched, request, store>>

\* main.py:138-144: after a successful pull, get_image_created(image)
PullInspect(o, insp) ==
    /\ task[o].pc = "pull_created"
    /\ LET called == [task[o] EXCEPT !.calls = @ \cup {Call("inspecti", task[o].image)}]
       IN  task' = [task EXCEPT ![o] =
                       IF get_image_created(insp) = Raise
                       THEN Ended(called, "unexpected")
                       ELSE Ended(called, "success")]
    /\ image_lock' = 0
    /\ UNCHANGED <<config, life, sched, request, store>>

PruneAcquire_NoLock(o, now) ==
    /\ task[o].kind = "prune"
    /\ task[o].pc = "queued"
    /\ image_lock' = o
    /\ task' = [task EXCEPT ![o].pc = "prune_used", ![o].now = now]
    /\ UNCHANGED <<config, life, sched, request, store>>

\* `with image_lock:` of run_prune and the reading of the clock,
\* main.py:274-277
PruneAcquire(o, now) ==
    /\ task[o].kind = "prune"
    /\ task[o].pc = "queued"
    /\ image_lock = 0
    /\ image_lock' = o
    /\ task' = [task EXCEPT ![o].pc = "prune_used", ![o].now = now]
    /\ UNCHANGED <<config, life, sched, request, store>>

PruneUsed_LeakOnRaise(o, ps) ==
    /\ task[o].pc = "prune_used"
    /\ LET r == get_used_images(ps, containers)
           called == [task[o] EXCEPT !.calls = @ \cup r.calls]
       IN  IF r.raised
           THEN /\ task' = [task EXCEPT ![o] = Ended(called, "exception")]
                /\ UNCHANGED image_lock
           ELSE /\ task' = [task EXCEPT ![o] =
                               [called EXCEPT !.pc = "prune_images",
                                              !.used_images = r.used]]
                /\ UNCHANGED image_lock
    /\ UNCHANGED <<config, life, sched, request, store>>

\* main.py:279: used_images = get_used_images(). An exception leaves
\* run_prune through the `with` block, which releases the lock.
PruneUsed(o, ps) ==
    /\ task[o].pc = "prune_used"
    /\ LET r == get_used_images(ps, containers)
           called == [task[o] EXCEPT !.calls = @ \cup r.calls]
       IN  IF r.raised
           THEN /\ task' = [task EXCEPT ![o] = Ended(called, "exception")]
                /\ image_lock' = 0
           ELSE /\ task' = [task EXCEPT ![o] =
                               [called EXCEPT !.pc = "prune_images",
                                              !.used_images = r.used]]
                /\ UNCHANGED image_lock
    /\ UNCHANGED <<config, life, sched, request, store>>

PruneImages_Cached(o, res) ==
    /\ task[o].pc = "prune_images"
    /\ LET r == get_all_images(res, SampleImages)
           called == [task[o] EXCEPT !.calls = @ \cup {Call("images", <<>>)}]
       IN  IF r.raised
           THEN /\ task' = [task EXCEPT ![o] = Ended(called, "exception")]
                /\ image_lock' = 0
           ELSE /\ task' = [task EXCEPT ![o] =
                               [called EXCEPT !.pc = "prune_loop",
                                              !.all_images = r.list, !.idx = 1]]
                /\ UNCHANGED image_lock
    /\ UNCHANGED <<config, life, sched, request, store>>

\* main.py:280: all_images = get_all_images()
PruneImages(o, res) ==
    /\ task[o].pc = "prune_images"
    /\ LET r == get_all_images(res, images)
           called == [task[o] EXCEPT !.calls = @ \cup {Call("images", <<>>)}]
       IN  IF r.raised
           THEN /\ task' = [task EXCEPT ![o] = Ended(called, "exception")]
                /\ image_lock' = 0
           ELSE /\ task' = [task EXCEPT ![o] =
                               [called EXCEPT !.pc = "prune_loop",
                                              !.all_images = r.list, !.idx = 1]]
                /\ UNCHANGED image_lock
    /\ UNCHANGED <<config, life, sched, request, store>>

Without(seq, x) == SelectSeq(seq, LAMBDA y : y # x)

PruneStep_ErrorsUncounted(o, rmi) ==
    /\ task[o].pc = "prune_loop"
    /\ task[o].idx <= Len(task[o].all_images)
    /\ LET t == task[o]
           img == t.all_images[t.idx]
           created_dt == get_image_created(imageInfo[img])
           inspected == [t EXCEPT !.calls = @ \cup {Call("inspecti", img)}]
           removing == [inspected EXCEPT !.calls = @ \cup {Call("rmi", img)}]
       IN  IF created_dt = Raise
           THEN /\ task' = [task EXCEPT ![o] = Ended(inspected, "exception")]
                /\ image_lock' = 0
                /\ UNCHANGED images
           ELSE IF ~ShouldRemove(created_dt, t.now, t.days, img, t.used_images)
           THEN /\ task' = [task EXCEPT ![o] = [inspected EXCEPT !.idx = @ + 1]]
                /\ UNCHANGED <<image_lock, images>>
           ELSE IF ~rmi.launched
           THEN /\ task' = [task EXCEPT ![o] = Ended(removing, "exception")]
                /\ image_lock' = 0
                /\ UNCHANGED images
           ELSE IF rmi.rc # 0
           THEN /\ task' = [task EXCEPT ![o] =
                               [removing EXCEPT !.idx = @ + 1]]
                /\ UNCHANGED <<image_lock, images>>
           ELSE /\ task' = [task EXCEPT ![o] =
                               [removing EXCEPT !.idx = @ + 1, !.images_pruned = @ + 1]]
                /\ images' = Without(images, img)
                /\ UNCHANGED image_lock
    /\ UNCHANGED <<config, life, sched, request, imageInfo, containers>>

\* One turn of the loop of main.py:283-306 for all_images[idx]; rmi is the
\* runtime's answer to `rmi`, should the turn get that far.
PruneStep(o, rmi) ==
    /\ task[o].pc = "prune_loop"
    /\ task[o].idx <= Len(task[o].all_images)
    /\ LET t == task[o]
           img == t.all_images[t.idx]
           created_dt == get_image_created(imageInfo[img])
           inspected == [t EXCEPT !.calls = @ \cup {Call("inspecti", img)}]
           removing == [inspected EXCEPT !.calls = @ \cup {Call("rmi", img)}]
       IN  IF created_dt = Raise
           THEN /\ task' = [task EXCEPT ![o] = Ended(inspected, "exception")]
                /\ image_lock' = 0
                /\ UNCHANGED images
           ELSE IF ~ShouldRemove(created_dt, t.now, t.days, img, t.used_images)
           THEN /\ task' = [task EXCEPT ![o] = [inspected EXCEPT !.idx = @ + 1]]
                /\ UNCHANGED <<image_lock, images>>
           ELSE IF ~rmi.launched
           THEN /\ task' = [task EXCEPT ![o] = Ended(removing, "exception")]
                /\ image_lock' = 0
                /\ UNCHANGED images
           ELSE IF rmi.rc # 0
           THEN /\ task' = [task EXCEPT ![o] =
                               [removing EXCEPT !.idx = @ + 1, !.errors = @ + 1]]
                /\ UNCHANGED <<image_lock, images>>
           ELSE /\ task' = [task EXCEPT ![o] =
                               [removing EXCEPT !.idx = @ + 1, !.images_pruned = @ + 1]]
                /\ images' = Without(images, img)
                /\ UNCHANGED image_lock
    /\ UNCHANGED <<config, life, sched, request, imageInfo, containers>>

\* The loop is over: the `with` block ends and the summary is logged,
\* main.py:308
PruneEnd(o) ==
    /\ task[o].pc = "prune_loop"
    /\ task[o].idx > Len(task[o].all_images)
    /\ task' = [task EXCEPT ![o] = Ended(task[o], "completed")]
    /\ image_lock' = 0
    /\ UNCHANGED <<config, life, sched, request, store>>

\* ------------------------------------------------------- specification
\* The steps of the service. in gives the sets the environment's inputs are
\* drawn from: the requests handled, their callers and bodies, and the
\* answers of the disk, the clock and the runtime.
Serve(in) ==
    \/ Startup
    \/ \E r \in in.requests, caller \in in.callers, body \in in.pullBodies :
          HandlePullImage(r, caller, body)
    \/ \E r \in in.requests, caller \in in.callers, body \in in.pruneBodies :
          HandlePruneImages(r, caller, body)

Fire == \E f \in Fires : SchedulerFire(f)

PullWork(in) ==
    \/ \E o \in Tasks : PullAcquire(o)
    \/ \E o \in Tasks, free \in in.frees : PullDiskCheck(o, free)
    \/ \E o \in Tasks : PullWait(o)
    \/ \E o \in Tasks, res \in in.pullResults : PullReturn(o, res)
    \/ \E o \in Tasks, insp \in in.inspectResults : PullInspect(o, insp)

PruneWork(in) ==
    \/ \E o \in Tasks, now \in NowValues : PruneAcquire(o, now)
    \/ \E o \in Tasks, ps \in in.listResults : PruneUsed(o, ps)
    \/ \E o \in Tasks, res \in in.listResults : PruneImages(o, res)
    \/ \E o \in Tasks, rmi \in in.rmiResults : PruneStep(o, rmi)
    \/ \E o \in Tasks : PruneEnd(o)

\* Concurrent requests and scheduler fires over the sample store
Inputs ==
    [requests |-> Requests, callers |-> Callers, pullBodies |-> PullBodies,
     pruneBodies |-> PruneBodies, frees |-> FreeValues,
     pullResults |-> PullResults, inspectResults |-> PullInspectResults,
     listResults |-> ListResults, rmiResults |-> RmiResults]

Next == Serve(Inputs) \/ Fire \/ PullWork(Inputs) \/ PruneWork(Inputs)

Spec == Init /\ [][Next]_vars

\* Admission of requests: every kind of caller, body and network
\* configuration, with a runtime that answers every command with success.
HttpRequests == 1..MaxHttpRequests
HttpNetworkEnvs ==
    {EnvAbsent, EnvGarbage, Cidr(10, 0, 0, 0, 8), Cidr(10, 0, 0, 1, 8),
     Cidr(0, 0, 0, 0, 0)}
HttpCallers == {Inside, V4(127, 0, 0, 1), Outside, V6Addr, BadAddr}
HttpPullBodies ==
    {NoJsonBody, PullBody(ImageNone), PullBody(ImageNumber),
     PullBody(Str(<<"">>)), PullBody(Str(<<" ">>)), PullBody(Str(<<"nginx">>)),
     PullBody(Str(<<"docker.io", "nginx">>)),
     PullBody(Str(<<"myregistry.example.com", "nginx">>)),
     PullBody(Str(<<"ghcr.io", "org", "app">>))}
HttpPruneBodies ==
    {NoJsonBody, EmptyObject, OtherKeyObject, DaysBody(JInt(5)),
     DaysBody(JStr(<<"7">>)), DaysBody(JStr(<<"a", "b", "c">>)),
     DaysBody(JFloatTenths(57)), DaysBody(JNull)}

HttpInputs ==
    [requests |-> HttpRequests, callers |-> HttpCallers,
     pullBodies |-> HttpPullBodies, pruneBodies |-> HttpPruneBodies,
     frees |-> {Free(51, 0)}, pullResults |-> {ExitOk},
     inspectResults |-> {InspectCreated(Day(99))},
     listResults |-> {ExitOk}, rmiResults |-> {ExitOk}]

InitHttp ==
    InitWith(HttpNetworkEnvs, {NoSchedule}, <<imgC>>, SampleInfo, <<>>)

NextHttp == Serve(HttpInputs) \/ PullWork(HttpInputs) \/ PruneWork(HttpInputs)

SpecHttp == InitHttp /\ [][NextHttp]_vars

\* The eviction decision: one accepted prune over every store of two images
\* whose creation times lie around the thresholds, used or not by a
\* container, with a runtime whose commands may fail.
PolicyDays == {0 - 1, 0, 5, DefaultDays}
PolicyInfos ==
    {InspectCreated(Day(86) - 1), InspectCreated(Day(86)), InspectCreated(Day(86) + 1),
     InspectCreated(Day(95)), InspectCreated(Day(101)), ExitError,
     Result(TRUE, 0, "no_created", 0), Result(TRUE, 0, "not_json", 0),
     Result(TRUE, 0, "bad_created", 0), Result(TRUE, 0, "json_list", 0),
     Result(TRUE, 0, "info_null", 0), LaunchError}
PolicyContainers ==
    {<<>>,
     << Container(<<"c1">>, Result(TRUE, 0, "ref", 0), imgA) >>,
     << Container(<<"c1">>, Result(TRUE, 0, "ref", 0), imgB) >>,
     << Container(<<"c1">>, Result(TRUE, 0, "ref", 0), imgA),
        Container(<<"c2">>, Result(TRUE, 0, "ref", 0), imgB) >>,
     << Container(<<"c1">>, ExitError, imgA),
        Container(<<"c2">>, Result(TRUE, 0, "ref", 0), imgB) >>,
     << Container(<<"c1">>, Result(TRUE, 0, "not_json", 0), imgA),
        Container(<<"c2">>, Result(TRUE, 0, "ref", 0), imgB) >>,
     << Container(<<"c1">>, Result(TRUE, 0, "status_null", 0), imgA),
        Container(<<"c2">>, Result(TRUE, 0, "ref", 0), imgB) >>,
     << Container(<<"c1">>, LaunchError, imgA),
        Container(<<"c2">>, Result(TRUE, 0, "ref", 0), imgB) >>}

PolicyInputs ==
    [requests |-> {1}, callers |-> {Inside}, pullBodies |-> {},
     pruneBodies |-> {}, frees |-> {}, pullResults |-> {},
     inspectResults |-> {}, listResults |-> {ExitOk, ExitError},
     rmiResults |-> {ExitOk, ExitError, LaunchError}]

InitPolicy ==
    /\ allowedNetworkEnv \in NetworkEnvs
    /\ ALLOWED_NETWORK = get_allowed_network(allowedNetworkEnv)
    /\ PRUNE_SCHEDULE = NoSchedule
    /\ PRUNE_DAYS \in PruneDaysValues
    /\ appStarted = TRUE
    /\ shutdownPc = "no"
    /\ jobs = {}
    /\ schedulerRunning = FALSE
    /\ \E days \in PolicyDays :
          /\ request = [r \in Requests |->
                IF r = 1
                THEN [endpoint |-> "prune", caller |-> Inside,
                      body |-> DaysBody(JInt(days)),
                      status |-> prune_images(Inside, DaysBody(JInt(days)),
                                              ALLOWED_NETWORK).status]
                ELSE NoRequest]
          /\ task = [o \in Tasks |->
                IF o = 1 THEN NewTask("prune", "request", <<>>, days) ELSE NoTask]
    /\ image_lock = 0
    /\ images = <<imgA, imgB>>
    /\ imageInfo \in [ImageIds -> PolicyInfos]
    /\ imageInfo[imgC] = ExitError
    /\ containers \in PolicyContainers

NextPolicy == PruneWork(PolicyInputs)

SpecPolicy == InitPolicy /\ [][NextPolicy]_vars

TypeOK ==
    /\ image_lock \in {0} \cup Tasks
    /\ \A o \in Tasks : task[o].kind \in {"none", "pull", "prune"}

\* Shutdown while requests and scheduler fires are in flight
ShutdownSchedules == {NoSchedule, Schedule(<<"0", "3", "*", "*", "*">>)}
ShutdownInputs ==
    [requests |-> HttpRequests, callers |-> {Inside},
     pullBodies |-> {PullBody(Str(<<"nginx">>))},
     pruneBodies |-> {DaysBody(JInt(5))},
     frees |-> {Free(51, 0), Free(49, 0)},
     pullResults |-> {ExitOk, ExitError, MissingBinary},
     inspectResults |-> {InspectCreated(Day(99))},
     listResults |-> {ExitOk, LaunchError},
     rmiResults |-> {ExitOk, ExitError}]

InitShutdown ==
    InitWith(NetworkEnvs, ShutdownSchedules, SampleImages, SampleInfo, SampleContainers)

NextShutdown ==
    \/ Serve(ShutdownInputs)
    \/ Fire
    \/ PullWork(ShutdownInputs)
    \/ PruneWork(ShutdownInputs)
    \/ ShutdownBegin
    \/ ShutdownReturn

SpecShutdown == InitShutdown /\ [][NextShutdown]_vars

\* The same service where every runtime command returns and a waiting task
\* gets the lock once it is free: the threads of the background tasks and of
\* the scheduler's executor keep running.
SpecFair ==
    /\ InitShutdown
    /\ [][NextShutdown]_vars
    /\ WF_vars(PullWork(ShutdownInputs) \/ PruneWork(ShutdownInputs))

\* ---------------------------------------------------------------- claims
Handled(r) == request[r].endpoint # "none"

\* The caller of request r is outside the configured network, or there is none
CallerOutside(r) ==
    ALLOWED_NETWORK = NoneVal \/ ~IpInNetwork(request[r].caller, ALLOWED_NETWORK)

\* C1: at most one run_pull / run_prune body executes at any time, whatever
\* started the two tasks, and the one executing holds image_lock.
C1_MutualExclusion ==
    /\ \A o1, o2 \in Tasks :
          (o1 # o2) => ~(InBody(task[o1]) /\ InBody(task[o2]))
    /\ \A o \in Tasks : InBody(task[o]) => image_lock = o

\* A request's pull waits while a scheduler-fired prune is inside its body
C1_Witness ==
    \E f \in Fires, r \in Requests :
        /\ task[f].kind = "prune" /\ task[f].origin = "scheduler"
        /\ InBody(task[f])
        /\ task[r].kind = "pull" /\ task[r].pc = "queued"

\* C2: a request of either endpoint whose caller is outside the allowed
\* network, or that arrives when no network is configured, is answered 403
\* and leaves no task behind: no body runs and no gateway call is made for
\* it, whatever its body.
C2_OutsideCallerRejected ==
    \A r \in Requests :
        (Handled(r) /\ CallerOutside(r)) =>
            /\ request[r].status = 403
            /\ task[r] = NoTask

\* An outside caller asked for a pull of a well-formed image and got 403
C2_Witness ==
    \E r \in Requests :
        /\ request[r].endpoint = "pull"
        /\ request[r].body = PullBody(Str(<<"nginx">>))
        /\ request[r].caller = Outside
        /\ ALLOWED_NETWORK # NoneVal
        /\ request[r].status = 403

\* The configured text is there and is no CIDR that ip_network accepts
EnvUnparsable == allowedNetworkEnv \in {EnvGarbage, Cidr(10, 0, 0, 1, 8)}

\* C3 as stated: with ALLOWED_NETWORK absent or unparsable every request of
\* every caller is denied.
C3_FailClosedAbsentOrUnparsable ==
    (allowedNetworkEnv = EnvAbsent \/ EnvUnparsable) =>
        \A r \in Requests : Handled(r) => request[r].status = 403

\* C3 amended: with ALLOWED_NETWORK set to text that does not parse every
\* request is denied; with the variable unset the default 0.0.0.0/1 applies,
\* so exactly the callers outside 0.0.0.0 - 127.255.255.255 are denied.
C3_FailClosedWhenUnparsable ==
    /\ EnvUnparsable =>
          \A r \in Requests : Handled(r) => request[r].status = 403
    /\ allowedNetworkEnv = EnvAbsent =>
          \A r \in Requests : Handled(r) =>
              (request[r].status = 403 <=>
                  ~(request[r].caller.kind = "v4"
                    /\ request[r].caller.octets[1] < 128))

\* A CIDR with host bits set was configured and a 10.x caller was denied
C3_Witness ==
    \E r \in Requests :
        /\ allowedNetworkEnv = Cidr(10, 0, 0, 1, 8)
        /\ request[r].caller = Inside
        /\ request[r].status = 403

\* The images a prune pass has decided on so far
Decided(t) == {t.all_images[i] : i \in 1..(t.idx - 1)}

\* The creation time the runtime reports for an image, if it reports one
CreatedOf(img) ==
    IF imageInfo[img].launched /\ imageInfo[img].rc = 0
       /\ imageInfo[img].stdout = "created"
    THEN Dt(imageInfo[img].t)
    ELSE NoneDt

\* The reference policy: creation time present, age at least the threshold,
\* and not used
PolicyEvicts(img, now, thresholdDays, used) ==
    /\ CreatedOf(img).kind = "dt"
    /\ now - CreatedOf(img).t >= thresholdDays * 86400
    /\ img \notin used

\* C4: for every image a prune pass has decided on, a remove-image call was
\* issued for it exactly when the reference policy evicts it: creation time
\* present, age >= thresholdDays * 86400 s and id not in the pass's used set.
C4_EvictionMatchesPolicy ==
    \A o \in Tasks :
        task[o].pc = "prune_loop" =>
            \A img \in Decided(task[o]) :
                (Call("rmi", img) \in task[o].calls)
                    <=> PolicyEvicts(img, task[o].now, task[o].days,
                                     task[o].used_images)

\* A pass has been through both images: imgA is old but used and was kept,
\* imgB is exactly at the threshold, unused, and was sent to rmi.
C4_Witness ==
    \E o \in Tasks :
        /\ task[o].pc = "prune_loop"
        /\ Decided(task[o]) = {imgA, imgB}
        /\ task[o].days = DefaultDays
        /\ imgA \in task[o].used_images
        /\ imageInfo[imgA] = InspectCreated(Day(86) - 1)
        /\ Call("rmi", imgA) \notin task[o].calls
        /\ imgB \notin task[o].used_images
        /\ task[o].now - imageInfo[imgB].t = DefaultDays * 86400
        /\ imageInfo[imgB].stdout = "created"
        /\ Call("rmi", imgB) \in task[o].calls

\* C5: a /prune-images request of an allowed caller whose body carries a
\* `days` that is no integer (text that is no number, or null) is answered
\* 400, not 200.
C5_NonIntegerDaysRejected ==
    \A r \in Requests :
        (/\ request[r].endpoint = "prune"
         /\ ~CallerOutside(r)
         /\ request[r].body \in {DaysBody(JStr(<<"a", "b", "c">>)), DaysBody(JNull)})
        => request[r].status = 400

\* The disk reading a pull saw is above the 50 GiB floor / exactly at it
AboveFloor(free) ==
    free.kind = "bytes" /\ (free.gib > 50 \/ (free.gib = 50 /\ free.rem > 0))
AtFloor(free) == free.kind = "bytes" /\ free.gib = 50 /\ free.rem = 0
BelowFloor(free) == free.kind = "bytes" /\ free.gib < 50

PastDiskGuard(t) == t.kind = "pull" /\ t.pc \in {"pull_run", "pull_created", "done"}

\* C6 as stated: no gateway call before the disk guard; below the floor the
\* pull aborts without a gateway call; otherwise, exactly 50 GiB included,
\* `pull <image>` is invoked.
C6_PullAtOrAboveFloor ==
    \A o \in Tasks :
        /\ task[o].pc = "pull_disk" => task[o].calls = {}
        /\ (PastDiskGuard(task[o]) /\ BelowFloor(task[o].free)) =>
              (task[o].calls = {} /\ task[o].outcome = "insufficient_disk")
        /\ (PastDiskGuard(task[o])
            /\ (AboveFloor(task[o].free) \/ AtFloor(task[o].free))) =>
              Call("pull", task[o].image) \in task[o].calls

\* C6 amended: no gateway call before the disk guard; with free space at or
\* below 50 GiB the pull aborts with the warning and without a gateway call;
\* with free space strictly above 50 GiB `pull <image>` is invoked.
C6_DiskGuard ==
    \A o \in Tasks :
        /\ task[o].pc = "pull_disk" => task[o].calls = {}
        /\ (PastDiskGuard(task[o])
            /\ (BelowFloor(task[o].free) \/ AtFloor(task[o].free))) =>
              (task[o].calls = {} /\ task[o].outcome = "insufficient_disk")
        /\ (PastDiskGuard(task[o]) /\ AboveFloor(task[o].free)) =>
              Call("pull", task[o].image) \in task[o].calls

\* One pull was refused at exactly 50 GiB and another, one byte above, ran
C6_Witness ==
    \E o1, o2 \in Tasks :
        /\ task[o1].kind = "pull" /\ task[o1].pc = "done"
        /\ task[o1].free = Free(50, 0)
        /\ task[o1].outcome = "insufficient_disk" /\ task[o1].calls = {}
        /\ task[o2].kind = "pull" /\ task[o2].pc = "pull_run"
        /\ task[o2].free = Free(50, 1)
        /\ Call("pull", <<"docker.io", "nginx">>) \in task[o2].calls

\* C7: a pull whose runtime command has not returned within 30 minutes does
\* not go on waiting for it: no run_pull is still waiting on the subprocess
\* with more than the bound elapsed.
C7_PullBoundedByTimeout ==
    \A o \in Tasks :
        task[o].pc = "pull_run" => task[o].elapsed <= 30

\* C8: a /pull-image request of an allowed caller whose JSON body has no
\* `image`, or an empty one, is answered 400 and no pull is scheduled.
C8_MissingImageRejected ==
    \A r \in Requests :
        (/\ request[r].endpoint = "pull"
         /\ ~CallerOutside(r)
         /\ request[r].body \in {PullBody(ImageNone), PullBody(Str(<<"">>))})
        => (request[r].status = 400 /\ task[r] = NoTask)

\* An allowed caller sent {} and got 400
C8_Witness ==
    \E r \in Requests :
        /\ request[r].endpoint = "pull"
        /\ request[r].caller = Inside
        /\ ALLOWED_NETWORK # NoneVal
        /\ request[r].body = PullBody(ImageNone)
        /\ request[r].status = 400
        /\ task[r] = NoTask

\* The next request to arrive, if the bound leaves one
Unhandled(r) ==
    /\ appStarted
    /\ ~Handled(r)
    /\ \A q \in Requests : q < r => Handled(q)

\* C9: an accepted request is answered 200 by the step that adds its task,
\* which neither waits for image_lock nor touches it: the handler can answer
\* whoever holds the lock, the body starts only after the answer, and no
\* later step of the task changes the answer given.
C9_AcknowledgedBeforeBody ==
    /\ [](\A r \in Requests :
            Unhandled(r) =>
                /\ ENABLED HandlePullImage(r, Inside, PullBody(Str(<<"nginx">>)))
                /\ ENABLED HandlePruneImages(r, Inside, DaysBody(JInt(5))))
    /\ [][\A r \in Requests :
            /\ (~Handled(r) /\ request'[r].status = 200) =>
                  (task'[r].pc = "queued" /\ image_lock' = image_lock)
            /\ (~InBody(task[r]) /\ InBody(task'[r])) => request[r].status = 200
            /\ Handled(r) => request'[r] = request[r]
       ]_vars

\* A request has its 200 and its task waits in the queue, while another
\* request's task is inside its body and holds the lock
C9_Witness ==
    \E r, q \in Requests :
        /\ r # q
        /\ image_lock = q /\ InBody(task[q])
        /\ request[r].status = 200 /\ task[r].pc = "queued"

\* The one schedule among the configured ones that from_crontab accepts
ValidCron == Schedule(<<"0", "3", "*", "*", "*">>)

\* C10: after startup the recurring job is registered (and the scheduler
\* runs) exactly when PRUNE_SCHEDULE is set and parses; without it no
\* scheduler-fired prune ever exists, and requests of allowed callers are
\* accepted and scheduled whatever the schedule.
C10_JobIffScheduleParses ==
    /\ ~appStarted => (jobs = {} /\ ~schedulerRunning)
    /\ appStarted =>
          /\ ("image_prune_job" \in jobs) <=> (PRUNE_SCHEDULE = ValidCron)
          /\ schedulerRunning <=> (PRUNE_SCHEDULE = ValidCron)
    /\ PRUNE_SCHEDULE # ValidCron => \A f \in Fires : task[f] = NoTask
    /\ \A r \in Requests :
          (Handled(r) /\ ~CallerOutside(r)) =>
              (request[r].status = 200 /\ task[r].kind = request[r].endpoint)

\* With a schedule of three fields no job is registered, and a prune asked
\* for by request has run to its end and removed an image
C10_Witness ==
    /\ appStarted
    /\ PRUNE_SCHEDULE = Schedule(<<"0", "3", "*">>)
    /\ jobs = {}
    /\ \E r \in Requests :
          /\ task[r].kind = "prune" /\ task[r].pc = "done"
          /\ task[r].outcome = "completed" /\ task[r].images_pruned >= 1

\* C11: shutdown removes the recurring job and stops the scheduler, and it
\* returns only when no scheduler-fired prune is in flight: once it has
\* returned no scheduler-fired prune is waiting or inside its body, in this
\* state and in every later one.
C11_ShutdownDrainsFires ==
    /\ shutdownPc # "no" => (jobs = {} /\ ~schedulerRunning)
    /\ shutdownPc = "returned" =>
          \A f \in Fires : task[f].pc \in {"none", "done"}

\* Shutdown has returned after a scheduler-fired prune ran to its end, and
\* a later fire never started
C11_Witness ==
    /\ shutdownPc = "returned"
    /\ PRUNE_SCHEDULE # NoSchedule
    /\ \E f \in Fires :
          /\ task[f].origin = "scheduler" /\ task[f].pc = "done"
          /\ task[f].outcome = "completed"

\* Registry hosts of the references sent in SpecHttp
RegistryHosts == {"docker.io", "myregistry.example.com", "ghcr.io"}

\* A reference whose first component is a registry host
FullyQualified(parts) == Len(parts) >= 2 /\ parts[1] \in RegistryHosts

\* An accepted /pull-image request with a text reference
AcceptedPull(r) ==
    /\ request[r].endpoint = "pull"
    /\ request[r].status = 200
    /\ request[r].body.kind = "object"
    /\ request[r].body.image.kind = "str"

\* C12: the reference handed to Pull is the request's reference prefixed
\* with docker.io/ when it is bare (at most one path separator and no
\* registry host), and the request's reference unchanged when it is fully
\* qualified (it starts with a registry host, docker.io included).
C12_QualifiedReferenceUnchanged ==
    \A r \in Requests :
        AcceptedPull(r) =>
            LET parts == request[r].body.image.parts
            IN  task[r].image = IF FullyQualified(parts)
                                THEN parts
                                ELSE <<"docker.io">> \o parts

\* The remove-image calls a pass has issued
RmiCalls(t) == {c \in t.calls : c.cmd = "rmi"}

\* C13: a remove-image call that exits non-zero is counted as an error and
\* the pass goes on to the next image (no abort), every evictable image the
\* pass has been through has received its remove-image call, and in the loop
\* and at the end of a completed pass removed + errors equals the number of
\* remove-image calls the pass issued.
C13_PruneBestEffort ==
    /\ [](\A o \in Tasks :
            /\ (task[o].pc = "prune_loop" \/ task[o].outcome = "completed")
                  => task[o].images_pruned + task[o].errors
                        = Cardinality(RmiCalls(task[o]))
            /\ task[o].pc = "prune_loop"
                  => \A img \in Decided(task[o]) :
                        PolicyEvicts(img, task[o].now, task[o].days,
                                     task[o].used_images)
                            => Call("rmi", img) \in task[o].calls)
    /\ [][\A o \in Tasks :
            task'[o].errors > task[o].errors
                => /\ task'[o].pc = "prune_loop"
                   /\ task'[o].idx = task[o].idx + 1
                   /\ task'[o].errors = task[o].errors + 1
                   /\ image_lock' = image_lock]_vars

\* A pass completed over two evictable images: removing imgA failed and was
\* counted, imgB after it was still removed.
C13_Witness ==
    \E o \in Tasks :
        /\ task[o].kind = "prune"
        /\ task[o].outcome = "completed"
        /\ RmiCalls(task[o]) = {Call("rmi", imgA), Call("rmi", imgB)}
        /\ task[o].errors = 1
        /\ task[o].images_pruned = 1
        /\ images = <<imgA>>

\* The references of the containers whose inspect answer can be used
UsableRefs ==
    {containers[i].ref :
        i \in {j \in DOMAIN containers :
                 /\ containers[j].insp.launched
                 /\ containers[j].insp.rc = 0
                 /\ containers[j].insp.stdout = "ref"}}

\* A pass whose listing of used images has inspected a container
InspectedContainers(t) ==
    /\ t.kind = "prune"
    /\ \E c \in t.calls : c.cmd = "inspect"

\* C14: once a pass has begun to inspect containers, every container is
\* inspected whatever the answers of the others, the pass is not ended by
\* the listing (it goes on to list the images), and its used set is the
\* references of the containers whose answer can be used.
C14_ContainerInspectFailureSkipped ==
    \A o \in Tasks :
        InspectedContainers(task[o]) =>
            /\ \A i \in DOMAIN containers :
                  Call("inspect", containers[i].cid) \in task[o].calls
            /\ task[o].outcome = "exception"
                  => Call("images", <<>>) \in task[o].calls
            /\ task[o].pc \in {"prune_images", "prune_loop"}
                  => task[o].used_images = UsableRefs

\* The images a prune pass has asked the creation time of
InspectedImages(t) == {c.arg : c \in {d \in t.calls : d.cmd = "inspecti"}}

\* C15: for every image a prune pass has asked the creation time of,
\* get_image_created returned a timestamp or absent on the runtime's answer,
\* whatever that answer was: it did not raise into the pass.
C15_GetImageCreatedNeverRaises ==
    \A o \in Tasks :
        task[o].kind = "prune" =>
            \A img \in InspectedImages(task[o]) :
                get_image_created(imageInfo[img]).kind \in {"dt", "None"}

\* The gateway commands that read the inventory
InventoryReads == {"images", "ps", "inspect", "inspecti"}

\* C16 as stated: every inventory read is issued by a prune pass; a pull
\* issues no gateway call but the pull command.
C16_PullIssuesOnlyPull ==
    \A o \in Tasks :
        /\ \A c \in task[o].calls :
              c.cmd \in InventoryReads => task[o].kind = "prune"
        /\ task[o].kind = "pull"
              => task[o].calls \subseteq {Call("pull", task[o].image)}

\* C16: every gateway call, inventory reads included, is issued by a task
\* that holds image_lock inside its body; listing images, listing containers
\* and inspecting a container are issued by prune passes only; a pull issues
\* the pull command and, after it returned with exit code 0, one
\* inspect-image call for the pulled reference, and no other call.
C16_ReadsUnderMutex ==
    /\ [](\A o \in Tasks :
            /\ \A c \in task[o].calls :
                  c.cmd \in {"images", "ps", "inspect", "rmi"}
                      => task[o].kind = "prune"
            /\ task[o].kind = "pull"
                  => /\ task[o].calls \subseteq
                           {Call("pull", task[o].image),
                            Call("inspecti", task[o].image)}
                     /\ Call("inspecti", task[o].image) \in task[o].calls
                           => /\ Call("pull", task[o].image) \in task[o].calls
                              /\ task[o].outcome \in {"success", "unexpected"})
    /\ [][\A o \in Tasks :
            task'[o].calls # task[o].calls
                => (image_lock = o /\ InBody(task[o]))]_vars

\* A pull has issued pull and inspect-image for its reference and ended in
\* success, and a prune pass holding the lock has listed containers and images
C16_Witness ==
    \E o, p \in Tasks :
        /\ task[o].kind = "pull"
        /\ task[o].outcome = "success"
        /\ task[o].calls = {Call("pull", task[o].image),
                            Call("inspecti", task[o].image)}
        /\ task[p].kind = "prune"
        /\ image_lock = p
        /\ {Call("ps", <<>>), Call("images", <<>>)} \subseteq task[p].calls

\* The terminal outcomes of a Pull
PullOutcomes ==
    {"success", "nonzero_exit", "insufficient_disk", "missing_binary",
     "timeout", "unexpected"}

\* C17: a Pull that has ended has one of the six outcomes, and the outcome
\* is that of its cause: a disk reading not above the floor ends in
\* insufficient disk, a pull command that cannot be launched because the
\* binary is missing ends in missing-binary, a non-zero exit in non-zero
\* exit, and success is reported only for a pull that exited with code 0.
C17_PullOutcomePerCause ==
    \A o \in Tasks :
        (task[o].kind = "pull" /\ task[o].pc = "done") =>
            /\ task[o].outcome \in PullOutcomes
            /\ (task[o].free.kind = "bytes" /\ ~DiskAboveFloor(task[o].free))
                  => task[o].outcome = "insufficient_disk"
            /\ task[o].result = MissingBinary
                  => task[o].outcome = "missing_binary"
            /\ (task[o].result.launched /\ task[o].result.rc # 0)
                  => task[o].outcome = "nonzero_exit"
            /\ task[o].outcome = "success" => task[o].result = ExitOk

\* The images in the store
Stored == {images[i] : i \in DOMAIN images}

\* The number of images the passes 1..n count as removed
RECURSIVE PrunedUpTo(_)
PrunedUpTo(n) == IF n = 0 THEN 0 ELSE task[n].images_pruned + PrunedUpTo(n - 1)

\* C18: over a store nothing else changes, a remove-image call is issued
\* only for an image that is still in the store (never for one an earlier
\* pass removed), and every removed image is counted by one pass: the
\* passes' removed counts add up to the number of images gone from the store.
C18_NoDoubleRemove ==
    /\ [](PrunedUpTo(MaxRequests + MaxFires) + Len(images) = Len(SampleImages))
    /\ [][\A o \in Tasks : \A img \in ImageIds :
            (Call("rmi", img) \in task'[o].calls
             /\ Call("rmi", img) \notin task[o].calls)
                => img \in Stored]_vars

\* Two passes completed: one removed imgC, the later one listed the store
\* afresh, inspected what was left and issued no remove-image call for imgC
C18_Witness ==
    \E o, p \in Tasks :
        /\ o # p
        /\ task[o].kind = "prune" /\ task[o].outcome = "completed"
        /\ task[p].kind = "prune" /\ task[p].outcome = "completed"
        /\ Call("rmi", imgC) \in task[o].calls
        /\ task[o].images_pruned >= 1
        /\ imgC \notin Stored
        /\ Call("images", <<>>) \in task[p].calls
        /\ Call("inspecti", imgB) \in task[p].calls
        /\ Call("inspecti", imgC) \notin task[p].calls
        /\ Call("rmi", imgC) \notin task[p].calls

\* C19: the lock is held only by a task inside its body, a step that ends a
\* body (by any outcome, an exception out of run_prune included) leaves the
\* lock free, and, every command returning and the lock being granted to
\* those that wait, every task that was accepted and is waiting runs its
\* body to the end.
C19_LockNeverLeaked ==
    /\ [](image_lock # 0 => InBody(task[image_lock]))
    /\ [][\A o \in Tasks :
            (InBody(task[o]) /\ task'[o].pc = "done") => image_lock' = 0]_vars
    /\ \A o \in Tasks : (task[o].pc = "queued") ~> (task[o].pc = "done")

\* A prune pass ended with an exception, and after it another task holds the
\* lock inside its body
C19_Witness ==
    \E o, p \in Tasks :
        /\ o # p
        /\ task[o].kind = "prune"
        /\ task[o].outcome = "exception"
        /\ image_lock = p
        /\ InBody(task[p])

====
